---------------------------- MODULE Spec2Model ----------------------------
(***************************************************************************)
(* Usage-metered subscription state machine of the farm bookkeeping app:   *)
(* plan catalog (lib/stripe), usage ledger and entitlement check           *)
(* (lib/subscription.ts), the metered endpoints (api/ocr, api/ai-assistant,*)
(* ExportButton), the Stripe webhook reconciler (api/stripe/webhook) and   *)
(* the checkout-session route.  The database is the only shared state; a   *)
(* request is a process whose steps are its database / external calls.     *)
(***************************************************************************)
EXTENDS Integers, Sequences, FiniteSets, TLC

(* ------------------------------ bounds --------------------------------- *)
MaxMonth == 2
MaxProcs == 2
MaxRaceCalls == 3
MaxDeliveries == 2
MaxReplays == 3
MaxAllProcs == 1
MaxAllDeliveries == 2
MaxOrderDeliveries == 6
MaxOver == 1
MaxRoundProcs == 1
MaxRoundDeliveries == 2
MaxExpiryProcs == 1
MaxExpiryDeliveries == 2
MaxEndpointProcs == 1
MaxIsoProcs == 1
MaxIsoDeliveries == 1
MaxCheckCalls == 2
MaxSoftCalls == 5
MaxCustomerCalls == 2
MaxRecordProcs == 1
MaxRecordDeliveries == 2
MaxStatusProcs == 1
MaxPaidCalls == 2
MaxPaidDeliveries == 1

(* --------------------------- value domains ----------------------------- *)
Users == {"u1", "u2"}
MeterUsers == {"u1"}
Features == {"ocr", "export", "ai_assistant"}
PlanTypes == {"free", "standard", "premium", "pro_yearly"}
PaidPlans == {"standard", "premium", "pro_yearly"}
Null == "null"

(* A JavaScript number that may be Infinity. *)
Num(n) == [inf |-> FALSE, n |-> n]
Infinity == [inf |-> TRUE, n |-> 0]
NumLt(a, b) == IF a.inf THEN FALSE ELSE IF b.inf THEN TRUE ELSE a.n < b.n
NumSub(a, b) == IF a.inf THEN Infinity ELSE Num(a.n - b.n)
NumMax(a, b) == IF NumLt(a, b) THEN b ELSE a

(* ---------------------------- plan catalog ----------------------------- *)
PLAN_LIMITS ==
  [p \in PlanTypes |->
     IF p = "free"
     THEN [ocr |-> Num(50), export |-> Num(3), ai_assistant |-> Num(10)]
     ELSE [ocr |-> Infinity, export |-> Infinity, ai_assistant |-> Infinity]]

isFreePlan(planType) == planType = "free"

getFeatureLimit(planType, feature) ==
  IF feature \in Features THEN PLAN_LIMITS[planType][feature] ELSE Num(0)

FreeLimit(f) == PLAN_LIMITS["free"][f].n

(* ------------------------------- state --------------------------------- *)
VARIABLES
  subs,      \* subscriptions table: user_id -> row (domain = users with a row)
  usage,     \* usage_tracking table: <<user_id, period_start>> -> counters
  now,       \* current calendar month
  tz,        \* time zone class of the server and of the browser
  procs,     \* requests / library calls, in start order
  custs,     \* Stripe customers created so far: sequence of owning users
  nDeliv,    \* webhook requests received so far
  last,      \* the last webhook request and its response
  okIncs,    \* per ledger entry: incrementUsage calls that returned normally
  seen,      \* billing events handled so far (kept when deliveries are collected)
  rows       \* usage_tracking: number of rows stored per <<user_id, period_start>>

vars == <<subs, usage, now, tz, procs, custs, nDeliv, last, okIncs, seen, rows>>

(* --------------------------- period handling --------------------------- *)
(* new Date(y, m, 1): local midnight of the first day of the month. *)
getCurrentPeriodStart(month) == [m |-> month, d |-> "first"]

(* toISOString().split("T")[0]: the UTC calendar date of that instant.     *)
(* East of UTC, local midnight of the 1st is still the last day of the     *)
(* previous month in UTC.                                                  *)
formatDateForDatabase(date, zone) ==
  IF zone = "east" THEN [m |-> date.m - 1, d |-> "last"] ELSE date

(* The export feature (ExportButton) and the usage display run in the      *)
(* browser, the receipt scan and the assistant in server routes.           *)
Env(kind, feature) ==
  IF kind = "usage" \/ feature = "export" THEN "browser" ELSE "server"

PeriodKey(kind, feature) ==
  formatDateForDatabase(getCurrentPeriodStart(now), tz[Env(kind, feature)])

ZeroCounters_one == [f \in Features |-> 1]

ZeroCounters == [f \in Features |-> 0]

(* ------------------------ entitlement check result --------------------- *)
NoRes == [allowed |-> FALSE, currentUsage |-> 0, limit |-> Num(0),
          remaining |-> Num(0), planType |-> "none"]

PaidResult_finite(planType) ==
  [allowed |-> TRUE, currentUsage |-> 0, limit |-> Num(9999),
   remaining |-> Num(9999), planType |-> planType]

PaidResult(planType) ==
  [allowed |-> TRUE, currentUsage |-> 0, limit |-> Infinity,
   remaining |-> Infinity, planType |-> planType]

FreeResult_le(planType, feature, counters) ==
  LET limit == getFeatureLimit(planType, feature)
      currentUsage == IF feature \in Features THEN counters[feature] ELSE 0
  IN [allowed |-> ~NumLt(limit, Num(currentUsage)),
      currentUsage |-> currentUsage,
      limit |-> limit,
      remaining |-> NumMax(Num(0), NumSub(limit, Num(currentUsage))),
      planType |-> planType]

FreeResult(planType, feature, counters) ==
  LET limit == getFeatureLimit(planType, feature)
      currentUsage == IF feature \in Features THEN counters[feature] ELSE 0
  IN [allowed |-> NumLt(Num(currentUsage), limit),
      currentUsage |-> currentUsage,
      limit |-> limit,
      remaining |-> NumMax(Num(0), NumSub(limit, Num(currentUsage))),
      planType |-> planType]

(* getMonthlyUsage: used, limit and remaining of every feature. *)
MonthlyUsage(planType, counters) ==
  [f \in Features |->
     [used |-> counters[f],
      limit |-> PLAN_LIMITS[planType][f],
      remaining |-> NumMax(Num(0), NumSub(PLAN_LIMITS[planType][f], Num(counters[f])))]]

NoSnap == MonthlyUsage("free", ZeroCounters)

getUserPlanType_activeOnly(u) ==
  IF u \in DOMAIN subs /\ subs[u].status = "active" THEN subs[u].plan ELSE "free"

getUserPlanType(u) == IF u \in DOMAIN subs THEN subs[u].plan ELSE "free"

(* ------------------------------ processes ------------------------------ *)
EndpointKinds == {"ocr", "ai_assistant", "export"}
ServerKinds == {"ocr", "ai_assistant"}
CallKinds == {"check", "inc"}
ClientKinds == EndpointKinds \cup CallKinds \cup {"usage", "checkout"}

(* planType values a checkout request body may carry. *)
CheckoutPlans == PlanTypes

ExtFailures == {"throw401", "throw429", "throw", "nocontent", "unparseable"}
ExtOutcomes == {"ok"} \cup ExtFailures

(* The requests and outcomes each scenario below draws from.  They are named
   so that TLC holds each set in sorted form before its workers start: a set
   written in place as an argument of a step of Next is sorted on first use,
   by whichever worker gets there. *)
RaceKinds == {"check", "inc", "ocr"}
CheckedKinds == {"check", "ocr"}
IsoKinds == {"inc", "ocr", "checkout"}
MonthKinds == {"check", "inc", "export", "ocr", "usage"}
MeteredFeatures == {"ocr", "export"}
ClientOutcomes == {"ok", "throw"}

NewProc(kind, u, f, pc, http) ==
  [kind |-> kind, user |-> u, feature |-> f, pc |-> pc, http |-> http,
   plan |-> "none", key |-> getCurrentPeriodStart(0), cur |-> 0, res |-> NoRes,
   ext |-> "none", incCalled |-> FALSE, incOk |-> FALSE, threw |-> FALSE,
   snap |-> NoSnap, hasSnap |-> FALSE, cust |-> "", req |-> "none",
   price |-> "none", code |-> "none", info |-> NoRes]

InFlight == {i \in 1..Len(procs) : procs[i].pc # "done"}

Set(i, r) == procs' = [procs EXCEPT ![i] = r]

IsEndpoint(p) == p.kind \in EndpointKinds

(* What a thrown error inside checkUsageLimit does to the caller: the      *)
(* endpoints' outer catch answers 500, a direct call just throws.          *)
CheckThrows(p) ==
  [p EXCEPT !.pc = "done", !.threw = TRUE,
            !.http = IF IsEndpoint(p) THEN 500 ELSE 0]

UsageInfo_noRemaining(res) ==
  [allowed |-> FALSE, currentUsage |-> res.currentUsage, limit |-> res.limit,
   remaining |-> res.limit, planType |-> res.planType]

(* usageInfo of the 403 body: the four numbers of the check. *)
UsageInfo(res) ==
  [allowed |-> FALSE, currentUsage |-> res.currentUsage, limit |-> res.limit,
   remaining |-> res.remaining, planType |-> res.planType]

(* checkUsageLimit returned res: a route answers 403 with code and         *)
(* usageInfo when denied; the export button shows an error (status 403     *)
(* stands for it) and stops.                                               *)
CheckReturns(p, res) ==
  IF p.kind = "usage" THEN [p EXCEPT !.pc = "done"]
  ELSE IF ~IsEndpoint(p) THEN [p EXCEPT !.pc = "done", !.res = res]
  ELSE IF ~res.allowed
       THEN IF p.kind \in ServerKinds
            THEN [p EXCEPT !.pc = "done", !.res = res, !.http = 403,
                           !.code = "USAGE_LIMIT_EXCEEDED", !.info = UsageInfo(res)]
            ELSE [p EXCEPT !.pc = "done", !.res = res, !.http = 403]
  ELSE [p EXCEPT !.pc = "ext", !.res = res]

IncThrows_surfaced(p) ==
  [p EXCEPT !.pc = "done", !.threw = ~IsEndpoint(p),
            !.http = IF IsEndpoint(p) THEN 500 ELSE 0]

(* incrementUsage threw: the endpoints swallow it and answer 200.          *)
IncThrows(p) ==
  [p EXCEPT !.pc = "done", !.threw = ~IsEndpoint(p),
            !.http = IF IsEndpoint(p) THEN 200 ELSE 0]

IncReturns(p) ==
  [p EXCEPT !.pc = "done", !.incOk = TRUE,
            !.http = IF IsEndpoint(p) THEN 200 ELSE 0]

Counter(u, k, f) == IF <<u, k>> \in DOMAIN usage THEN usage[<<u, k>>][f] ELSE 0

OkIncs(u, k, f) == IF <<u, k>> \in DOMAIN okIncs THEN okIncs[<<u, k>>][f] ELSE 0

(* The process record of a new arrival: an endpoint request authenticates  *)
(* first (401 without a session), a direct call enters the library.        *)
Arrival(kind, u, f, authOk, req) ==
  IF kind \in EndpointKinds
  THEN IF authOk THEN NewProc(kind, u, f, "check_sub", 0)
       ELSE NewProc(kind, u, f, "done", 401)
  ELSE IF kind \in {"check", "usage"} THEN NewProc(kind, u, f, "check_sub", 0)
  ELSE IF kind = "checkout"
       THEN IF ~authOk THEN NewProc(kind, u, "none", "done", 401)
            ELSE IF req \notin PaidPlans
                 THEN [NewProc(kind, u, "none", "done", 400) EXCEPT !.req = req]
                 ELSE [NewProc(kind, u, "none", "co_read", 0) EXCEPT !.req = req]
  ELSE NewProc(kind, u, f, "inc_sel", 0)

(* A request or a direct library call arrives while others are in flight. *)
Start(kinds, users, feats, maxProcs, auths, reqs) ==
  /\ Len(procs) < maxProcs
  /\ \E kind \in kinds, u \in users, f \in feats, authOk \in auths :
       /\ kind \in EndpointKinds => f = kind
       /\ \E req \in (IF kind = "checkout" THEN reqs ELSE {"none"}) :
            procs' = Append(procs, Arrival(kind, u, f, authOk, req))
  /\ UNCHANGED <<subs, usage, now, tz, custs, nDeliv, last, okIncs, seen, rows>>

(* A direct library call is made after the previous one has returned. *)
StartSeq(users, cap) ==
  /\ InFlight = {}
  /\ \E kind \in CallKinds, u \in users, f \in Features :
       /\ kind = "inc" => Counter(u, PeriodKey(kind, f), f) < cap[f]
       /\ procs' = <<Arrival(kind, u, f, TRUE, "none")>>
  /\ UNCHANGED <<subs, usage, now, tz, custs, nDeliv, last, okIncs, seen, rows>>

(* checkUsageLimit: getUserPlanType, then the paid-plan early return;      *)
(* getMonthlyUsage reads the plan the same way and has no early return.    *)
CheckSub(i, errs) ==
  /\ i \in 1..Len(procs) /\ procs[i].pc = "check_sub"
  /\ \E err \in errs :
       LET p == procs[i]
           planType == getUserPlanType(p.user)
       IN Set(i, IF err THEN CheckThrows(p)
                 ELSE IF p.kind # "usage" /\ ~isFreePlan(planType)
                      THEN CheckReturns(p, PaidResult(planType))
                      ELSE [p EXCEPT !.pc = "check_sel", !.plan = planType])
  /\ UNCHANGED <<subs, usage, now, tz, custs, nDeliv, last, okIncs, seen, rows>>

(* getOrCreateUsageRecord, the select: called from checkUsageLimit         *)
(* (pc check_sel) and from incrementUsage (pc inc_sel).                    *)
UsageSelect(i, errs) ==
  /\ i \in 1..Len(procs) /\ procs[i].pc \in {"check_sel", "inc_sel"}
  /\ \E err \in errs :
       LET p == procs[i]
           key == PeriodKey(p.kind, p.feature)
           found == <<p.user, key>> \in DOMAIN usage /\ ~err
       IN Set(i, IF found
                 THEN IF p.pc = "check_sel"
                      THEN CheckReturns([p EXCEPT !.key = key,
                                           !.hasSnap = (p.kind = "usage"),
                                           !.snap = MonthlyUsage(p.plan, usage[<<p.user, key>>])],
                                        FreeResult(p.plan, p.feature, usage[<<p.user, key>>]))
                      ELSE [p EXCEPT !.pc = "inc_upd", !.key = key, !.incCalled = TRUE,
                                     !.cur = usage[<<p.user, key>>][p.feature]]
                 ELSE [p EXCEPT !.key = key,
                                !.incCalled = (p.pc = "inc_sel") \/ p.incCalled,
                                !.pc = IF p.pc = "check_sel" THEN "check_ins" ELSE "inc_ins"])
  /\ UNCHANGED <<subs, usage, now, tz, custs, nDeliv, last, okIncs, seen, rows>>

UniqueViolation_off(T, k) == FALSE

(* UNIQUE(user_id, period_start) of usage_tracking. *)
UniqueViolation(T, k) == k \in DOMAIN T

(* getOrCreateUsageRecord, the insert of a zero row; the unique constraint *)
(* rejects a second row for the same user and period.                      *)
UsageInsert(i, errs) ==
  /\ i \in 1..Len(procs) /\ procs[i].pc \in {"check_ins", "inc_ins"}
  /\ \E err \in errs :
       LET p == procs[i]
           k == <<p.user, p.key>>
           fails == err \/ UniqueViolation(rows, k)
       IN /\ usage' = IF fails THEN usage ELSE usage @@ (k :> ZeroCounters)
          /\ okIncs' = IF fails THEN okIncs ELSE okIncs @@ (k :> ZeroCounters)
          /\ rows' = IF fails THEN rows
                     ELSE IF k \in DOMAIN rows THEN [rows EXCEPT ![k] = @ + 1]
                     ELSE rows @@ (k :> 1)
          /\ Set(i, IF fails
                    THEN IF p.pc = "check_ins" THEN CheckThrows(p) ELSE IncThrows(p)
                    ELSE IF p.pc = "check_ins"
                         THEN CheckReturns([p EXCEPT !.hasSnap = (p.kind = "usage"),
                                              !.snap = MonthlyUsage(p.plan, ZeroCounters)],
                                           FreeResult(p.plan, p.feature, ZeroCounters))
                         ELSE [p EXCEPT !.pc = "inc_upd", !.cur = 0])
  /\ UNCHANGED <<subs, now, tz, custs, nDeliv, last, seen>>

ExtNext_always(o) == "inc_sel"

(* Step 6 (incrementUsage) is reached only when the operation produced a   *)
(* usable result; every other outcome returns an error response.           *)
ExtNext(o) == IF o = "ok" THEN "inc_sel" ELSE "done"

(* Input validation and the external operation of a metered endpoint. *)
ExternalOp(i, outcomes) ==
  /\ i \in 1..Len(procs) /\ procs[i].pc = "ext"
  /\ \E o \in outcomes \cup {"invalid"} :
       LET p == procs[i]
       IN Set(i, IF o = "ok" THEN [p EXCEPT !.pc = ExtNext(o), !.ext = o]
                 ELSE [p EXCEPT !.pc = ExtNext(o), !.ext = o,
                         !.http = IF o = "invalid" THEN 400
                                  ELSE IF o = "throw401" /\ p.kind = "ocr" THEN 401
                                  ELSE IF o = "throw429" THEN 429
                                  ELSE 500])
  /\ UNCHANGED <<subs, usage, now, tz, custs, nDeliv, last, okIncs, seen, rows>>

NewCount_same(currentCount) == currentCount

NewCount(currentCount) == currentCount + 1

(* incrementUsage, the update: writes the count read earlier plus one. *)
UsageUpdate(i, errs) ==
  /\ i \in 1..Len(procs) /\ procs[i].pc = "inc_upd"
  /\ \E err \in errs :
       LET p == procs[i]
           k == <<p.user, p.key>>
       IN /\ usage' = IF err THEN usage
                      ELSE [usage EXCEPT ![k][p.feature] = NewCount(p.cur)]
          /\ okIncs' = IF err THEN okIncs
                       ELSE [okIncs EXCEPT ![k][p.feature] = @ + 1]
          /\ Set(i, IF err THEN IncThrows(p) ELSE IncReturns(p))
  /\ UNCHANGED <<subs, now, tz, custs, nDeliv, last, seen, rows>>

(* The calendar month changes. *)
Tick ==
  /\ now < MaxMonth
  /\ now' = now + 1
  /\ UNCHANGED <<subs, usage, tz, procs, custs, nDeliv, last, okIncs, seen, rows>>

SeqCap == [f \in Features |-> FreeLimit(f) + MaxOver]

NoEv == [type |-> "none", sid |-> Null, cust |-> "", user |-> Null,
         price |-> "none", period |-> 0, status |-> "none", cape |-> FALSE]

NoLast == [sig |-> "none", type |-> "none", sid |-> Null, cape |-> FALSE,
           fail |-> "none", http |-> 0, handled |-> FALSE, hit |-> FALSE,
           paidActive |-> FALSE, ev |-> NoEv, replay |-> FALSE, retry |-> "none"]

FreeRow == [cust |-> Null, sid |-> Null, plan |-> "free", status |-> "active",
            pStart |-> 0, pEnd |-> 0]

InitCommon ==
  /\ usage = << >>
  /\ now = 1
  /\ tz \in [{"server", "browser"} -> {"utc", "east"}]
  /\ procs = << >>
  /\ custs = << >>
  /\ nDeliv = 0
  /\ last = NoLast
  /\ okIncs = << >>
  /\ rows = << >>
  /\ seen = {}

(* ---------------- metered endpoints, interleaved requests -------------- *)
InitMeter ==
  /\ InitCommon
  /\ \E p \in PlanTypes :
       subs = [u \in Users |-> IF p = "free" THEN FreeRow
                                ELSE [cust |-> "c1", sid |-> "s1", plan |-> p,
                                      status |-> "active", pStart |-> 1, pEnd |-> 2]]

NextMeter ==
  \/ Start(ServerKinds, MeterUsers, Features, MaxProcs, BOOLEAN, {"none"})
  \/ \E i \in 1..MaxProcs + 1 : CheckSub(i, BOOLEAN)
  \/ \E i \in 1..MaxProcs + 1 : UsageSelect(i, BOOLEAN)
  \/ \E i \in 1..MaxProcs + 1 : UsageInsert(i, BOOLEAN)
  \/ \E i \in 1..MaxProcs + 1 : ExternalOp(i, ExtOutcomes)
  \/ \E i \in 1..MaxProcs + 1 : UsageUpdate(i, BOOLEAN)
  \/ Tick

SpecMeter == InitMeter /\ [][NextMeter]_vars

(* C1: a metered request (receipt scan, assistant) whose external          *)
(* operation threw, returned no content or returned an unparseable result  *)
(* never calls incrementUsage, and no step of that request changes a       *)
(* counter of the ledger.                                                  *)
C1_NoChargeOnFailure ==
  [][\A i \in 1..Len(procs') :
       procs'[i].ext \in ExtFailures =>
         /\ ~procs'[i].incCalled
         /\ procs'[i].pc = "done"
         /\ (i <= Len(procs) /\ procs[i] # procs'[i]) => usage' = usage]_vars

C1_Witness ==
  \E i \in 1..Len(procs) :
    /\ procs[i].ext \in ExtFailures
    /\ procs[i].pc = "done"
    /\ procs[i].http >= 400
    /\ \E k \in DOMAIN usage : k[1] = procs[i].user

(* C3: for a user on standard, premium or pro_yearly, checkUsageLimit      *)
(* returns allowed = true with limit = Infinity, whatever the counters     *)
(* are, and Infinity is greater than every finite usage count.             *)
C3_PaidAlwaysAllowed ==
  \A i \in 1..Len(procs) :
    (getUserPlanType(procs[i].user) \in PaidPlans /\ procs[i].res.planType # "none") =>
      /\ procs[i].res.allowed
      /\ procs[i].res.limit = Infinity
      /\ ~NumLt(procs[i].res.limit, procs[i].res.limit)
      /\ \A k \in DOMAIN usage, f \in Features :
            NumLt(Num(usage[k][f] + FreeLimit(f)), procs[i].res.limit)

C3_Witness ==
  \E i \in 1..Len(procs) :
    /\ getUserPlanType(procs[i].user) \in PaidPlans
    /\ procs[i].res.planType # "none"
    /\ \E k \in DOMAIN usage : k[1] = procs[i].user /\ usage[k][procs[i].feature] >= 1

(* ------------- direct library calls, one after the other --------------- *)
InitSeq ==
  /\ InitCommon
  /\ subs \in {[u \in Users |-> FreeRow], << >>}

NextSeq ==
  \/ StartSeq(MeterUsers, SeqCap)
  \/ CheckSub(1, BOOLEAN)
  \/ UsageSelect(1, BOOLEAN)
  \/ UsageInsert(1, BOOLEAN)
  \/ UsageUpdate(1, BOOLEAN)

SpecSeq == InitSeq /\ [][NextSeq]_vars

(* C2: free tier, calls one after the other within one month: with n the   *)
(* number of successful increments of feature f, checkUsageLimit(f)        *)
(* returns allowed = true while n < L, and after exactly L increments      *)
(* allowed = false, currentUsage = L, limit = L, remaining = 0.            *)
C2_FreeQuotaBoundary ==
  \A i \in 1..Len(procs) :
    LET p == procs[i]
        n == OkIncs(p.user, p.key, p.feature)
        L == FreeLimit(p.feature)
    IN (p.kind = "check" /\ p.pc = "done" /\ p.res.planType = "free") =>
         /\ n < L => (p.res.allowed /\ p.res.currentUsage = n)
         /\ n = L => /\ ~p.res.allowed
                     /\ p.res.currentUsage = L
                     /\ p.res.limit = Num(L)
                     /\ p.res.remaining = Num(0)

C2_Witness ==
  \E i \in 1..Len(procs) :
    /\ procs[i].kind = "check" /\ procs[i].pc = "done"
    /\ procs[i].res.planType = "free"
    /\ procs[i].feature = "export"
    /\ OkIncs(procs[i].user, procs[i].key, "export") = FreeLimit("export")
    /\ ~procs[i].res.allowed

(* ---------------- overlapping calls of one user, one month ------------- *)
InitRace ==
  /\ InitCommon
  /\ subs = [u \in Users |-> FreeRow]

NextRace ==
  \/ Start(RaceKinds, MeterUsers, {"ocr"}, MaxRaceCalls, {TRUE}, {"none"})
  \/ \E i \in 1..MaxRaceCalls + 1 : CheckSub(i, {FALSE})
  \/ \E i \in 1..MaxRaceCalls + 1 : UsageSelect(i, {FALSE})
  \/ \E i \in 1..MaxRaceCalls + 1 : UsageInsert(i, {FALSE})
  \/ \E i \in 1..MaxRaceCalls + 1 : ExternalOp(i, {"ok"})
  \/ \E i \in 1..MaxRaceCalls + 1 : UsageUpdate(i, {FALSE})

SpecRace == InitRace /\ [][NextRace]_vars

(* C7: under any interleaving of incrementUsage and checkUsageLimit calls  *)
(* of one user in one period, no step lowers a counter of the ledger       *)
(* entry.                                                                  *)
C7_CountersMonotonic ==
  [][\A k \in DOMAIN usage, f \in Features : usage'[k][f] >= usage[k][f]]_vars

WriteFailed(p) == p.threw \/ (p.incCalled /\ p.pc = "done" /\ ~p.incOk)

Succeeded(f) ==
  {i \in 1..Len(procs) :
     /\ procs[i].feature = f /\ procs[i].pc = "done"
     /\ \/ procs[i].kind = "inc" /\ ~procs[i].threw
        \/ IsEndpoint(procs[i]) /\ procs[i].http = 200}

(* C8: when no database write fails, after k metered operations of one     *)
(* user and one feature have completed successfully in a period, the       *)
(* period's counter equals its initial value (0) plus k.                   *)
C8_ExactlyOnce ==
  (InFlight = {} /\ \A i \in 1..Len(procs) : ~WriteFailed(procs[i])) =>
    \A u \in MeterUsers, f \in Features :
      Counter(u, PeriodKey("inc", f), f) = Cardinality({i \in Succeeded(f) : procs[i].user = u})

(* C17: the ledger never holds more than one row for a user and a period, *)
(* also when overlapping requests of the user all find no row and all      *)
(* attempt the insert; and a row, once there, stays.                       *)
C17_OneEntryPerPeriod ==
  [][/\ \A k \in DOMAIN rows' : rows'[k] <= 1
     /\ DOMAIN rows' = DOMAIN usage'
     /\ \A k \in DOMAIN usage : k \in DOMAIN usage']_vars

C17_Witness ==
  \E i, j \in 1..Len(procs) :
    /\ i # j /\ procs[i].user = procs[j].user /\ procs[i].key = procs[j].key
    /\ procs[i].pc = "done" /\ WriteFailed(procs[i]) /\ procs[i].cur = 0
    /\ procs[j].pc = "done" /\ procs[j].incOk
    /\ <<procs[i].user, procs[i].key>> \in DOMAIN rows

(* ======================== billing event reconciler ===================== *)
SubIds == {"s1", "s2"}
EvCusts == {"", "c1"}
StripeStatuses == {"active", "canceled", "incomplete_expired", "past_due",
                   "unpaid", "trialing", "incomplete"}

STRIPE_PRICE_IDS ==
  [standard |-> "price_standard_monthly",
   premium |-> "price_premium_monthly",
   pro_yearly |-> "price_pro_yearly"]

PRICE_ID_TO_PLAN ==
  [pr \in {STRIPE_PRICE_IDS[p] : p \in PaidPlans} |->
     CHOOSE p \in PaidPlans : STRIPE_PRICE_IDS[p] = pr]

getPlanTypeFromPriceId(priceId) ==
  IF priceId \in DOMAIN PRICE_ID_TO_PLAN THEN PRICE_ID_TO_PLAN[priceId] ELSE Null

(* The status mapping of handleSubscriptionUpdated. *)
MapStatus(stripeStatus) ==
  IF stripeStatus \in {"canceled", "incomplete_expired"} THEN "canceled"
  ELSE IF stripeStatus \in {"past_due", "unpaid"} THEN "past_due"
  ELSE IF stripeStatus = "trialing" THEN "trialing"
  ELSE "active"

(* Row-level security of the two tables: the service role bypasses it, a   *)
(* user session may select and insert its own subscriptions row but has no *)
(* UPDATE policy on it.                                                    *)
RlsAllows_userUpdate(role, table, op) == TRUE

RlsAllows(role, table, op) ==
  \/ role = "service"
  \/ table = "usage_tracking" /\ op \in {"select", "insert", "update"}
  \/ table = "subscriptions" /\ op \in {"select", "insert"}

Row(cust, sid, plan, status, ps, pe) ==
  [cust |-> cust, sid |-> sid, plan |-> plan, status |-> status,
   pStart |-> ps, pEnd |-> pe]

(* upsert on conflict user_id: inserts the row or overwrites its columns. *)
upsertSubscription_extends(T, userId, cust, sid, plan, status, ps, pe) ==
  [u \in DOMAIN T \cup {userId} |->
     IF u = userId
     THEN Row(cust, sid, plan, status, ps,
              IF userId \in DOMAIN T /\ T[u].pEnd > 0 THEN T[u].pEnd + 1 ELSE pe)
     ELSE T[u]]

upsertSubscription(T, userId, cust, sid, plan, status, ps, pe) ==
  [u \in DOMAIN T \cup {userId} |->
     IF u = userId THEN Row(cust, sid, plan, status, ps, pe) ELSE T[u]]

cancelSubscription_all(T, sid) ==
  [u \in DOMAIN T |-> [T[u] EXCEPT !.status = "canceled"]]

cancelSubscription(T, sid) ==
  [u \in DOMAIN T |->
     IF T[u].sid = sid THEN [T[u] EXCEPT !.status = "canceled"] ELSE T[u]]

revertToFreePlan_keepsPeriod(T, sid) ==
  [u \in DOMAIN T |->
     IF T[u].sid = sid
     THEN [T[u] EXCEPT !.plan = "free", !.status = "active", !.sid = Null]
     ELSE T[u]]

revertToFreePlan(T, sid) ==
  [u \in DOMAIN T |->
     IF T[u].sid = sid
     THEN [T[u] EXCEPT !.plan = "free", !.status = "active", !.sid = Null,
                       !.pStart = 0, !.pEnd = 0]
     ELSE T[u]]

markPastDue_all(T, sid) ==
  [u \in DOMAIN T |-> [T[u] EXCEPT !.status = "past_due"]]

(* update({status: "past_due"}).eq("stripe_subscription_id", sid) *)
markPastDue(T, sid) ==
  [u \in DOMAIN T |->
     IF T[u].sid = sid THEN [T[u] EXCEPT !.status = "past_due"] ELSE T[u]]

Ok(T) == [T |-> T, threw |-> FALSE]
Threw_quiet(T) == [T |-> T, threw |-> FALSE]

Threw(T) == [T |-> T, threw |-> TRUE]

handleCheckoutCompleted_noSidCheck(T, ev, fail) ==
  IF fail = "read" THEN Threw(T)
  ELSE IF ev.user = Null THEN Ok(T)
  ELSE IF getPlanTypeFromPriceId(ev.price) = Null THEN Ok(T)
  ELSE IF fail = "write1" THEN Threw(T)
  ELSE Ok(upsertSubscription(T, ev.user, ev.cust, ev.sid,
                             getPlanTypeFromPriceId(ev.price), "active",
                             ev.period, ev.period + 1))

(* The fields of a checkout event: the session's subscription id, customer *)
(* and metadata, and what stripe.subscriptions.retrieve returns for that   *)
(* subscription (metadata user, price, period bounds).                     *)
handleCheckoutCompleted(T, ev, fail) ==
  IF ev.sid = Null THEN Ok(T)
  ELSE IF fail = "read" THEN Threw(T)
  ELSE IF ev.user = Null THEN Ok(T)
  ELSE IF getPlanTypeFromPriceId(ev.price) = Null THEN Ok(T)
  ELSE IF fail = "write1" THEN Threw(T)
  ELSE Ok(upsertSubscription(T, ev.user, ev.cust, ev.sid,
                             getPlanTypeFromPriceId(ev.price), "active",
                             ev.period, ev.period + 1))

handleSubscriptionUpdated_refFirst(T, ev, fail) ==
  LET holders == {u \in DOMAIN T : T[u].sid = ev.sid}
      found == fail # "read" /\ Cardinality(holders) = 1
      planType == getPlanTypeFromPriceId(ev.price)
      target == IF found THEN CHOOSE u \in holders : TRUE ELSE ev.user
  IN IF ev.user = Null /\ ~found THEN Ok(T)
     ELSE IF planType = Null THEN Ok(T)
     ELSE IF fail = "write1" THEN Threw(T)
     ELSE Ok(upsertSubscription(T, target, ev.cust, ev.sid, planType,
                                MapStatus(ev.status), ev.period, ev.period + 1))

(* Metadata user first; without it the row found by subscription id with   *)
(* .single(), which yields no row unless exactly one matches.              *)
handleSubscriptionUpdated(T, ev, fail) ==
  LET holders == {u \in DOMAIN T : T[u].sid = ev.sid}
      found == fail # "read" /\ Cardinality(holders) = 1
      planType == getPlanTypeFromPriceId(ev.price)
      target == IF ev.user # Null THEN ev.user ELSE CHOOSE u \in holders : TRUE
  IN IF ev.user = Null /\ ~found THEN Ok(T)
     ELSE IF planType = Null THEN Ok(T)
     ELSE IF fail = "write1" THEN Threw(T)
     ELSE Ok(upsertSubscription(T, target, ev.cust, ev.sid, planType,
                                MapStatus(ev.status), ev.period, ev.period + 1))

RevertWanted_always(cancelAtPeriodEnd) == TRUE

RevertWanted(cancelAtPeriodEnd) == ~cancelAtPeriodEnd

handleSubscriptionDeleted_skipCanceled(T, ev, fail) ==
  IF \A u \in DOMAIN T : T[u].sid = ev.sid => T[u].status = "canceled" THEN Ok(T)
  ELSE IF fail = "write1" THEN Threw(T)
  ELSE LET T1 == cancelSubscription(T, ev.sid)
       IN IF ~RevertWanted(ev.cape) THEN Ok(T1)
          ELSE IF fail = "write2" THEN Threw(T1)
          ELSE Ok(revertToFreePlan(T1, ev.sid))

handleSubscriptionDeleted(T, ev, fail) ==
  IF fail = "write1" THEN Threw(T)
  ELSE LET T1 == cancelSubscription(T, ev.sid)
       IN IF ~RevertWanted(ev.cape) THEN Ok(T1)
          ELSE IF fail = "write2" THEN Threw(T1)
          ELSE Ok(revertToFreePlan(T1, ev.sid))

handlePaymentFailed(T, ev, fail) ==
  IF ev.sid = Null THEN Ok(T)
  ELSE IF fail = "write1" THEN Ok(T)
  ELSE Ok(markPastDue(T, ev.sid))

(* The switch on event.type of the webhook POST. *)
Dispatch(T, ev, fail) ==
  IF ev.type = "checkout" THEN handleCheckoutCompleted(T, ev, fail)
  ELSE IF ev.type = "updated" THEN handleSubscriptionUpdated(T, ev, fail)
  ELSE IF ev.type = "deleted" THEN handleSubscriptionDeleted(T, ev, fail)
  ELSE IF ev.type = "payment_failed" THEN handlePaymentFailed(T, ev, fail)
  ELSE Ok(T)

Snapshots == {<<"price_standard_monthly", 1>>, <<"price_premium_monthly", 1>>,
              <<"price_pro_yearly", 2>>, <<"price_unknown", 2>>}

Ev(type, sid, cust, user, snap, status, cape) ==
  [type |-> type, sid |-> sid, cust |-> cust, user |-> user, price |-> snap[1],
   period |-> snap[2], status |-> status, cape |-> cape]

CheckoutEvents ==
  {Ev("checkout", sid, c, u, sn, "active", FALSE) :
     sid \in SubIds \cup {Null}, c \in EvCusts, u \in Users \cup {Null}, sn \in Snapshots}

UpdatedEvents ==
  {Ev("updated", sid, "c1", u, sn, st, FALSE) :
     sid \in SubIds, u \in Users \cup {Null}, sn \in Snapshots,
     st \in StripeStatuses}

DeletedEvents ==
  {Ev("deleted", sid, "c1", Null, <<"price_standard_monthly", 1>>, "canceled", cape) :
     sid \in SubIds, cape \in BOOLEAN}

PaymentFailedEvents ==
  {Ev("payment_failed", sid, "c1", Null, <<"price_standard_monthly", 1>>, "active", FALSE) :
     sid \in SubIds \cup {Null}}

OtherEvents ==
  {Ev("other", Null, "c1", Null, <<"price_standard_monthly", 1>>, "active", FALSE)}

Events == CheckoutEvents \cup UpdatedEvents \cup DeletedEvents
            \cup PaymentFailedEvents \cup OtherEvents

(* A small set of events with one of every type, used where the event   *)
(* itself is kept in the state.                                            *)
ReplayEvents ==
  {Ev("checkout", "s1", "c1", "u1", <<"price_standard_monthly", 1>>, "active", FALSE),
   Ev("checkout", "s2", "", "u2", <<"price_pro_yearly", 2>>, "active", FALSE),
   Ev("updated", "s1", "c1", "u1", <<"price_premium_monthly", 1>>, "past_due", FALSE),
   Ev("updated", "s1", "c1", Null, <<"price_pro_yearly", 2>>, "active", FALSE),
   Ev("updated", "s1", "c1", "u2", <<"price_standard_monthly", 1>>, "trialing", FALSE),
   Ev("updated", "s2", "c1", Null, <<"price_unknown", 2>>, "canceled", FALSE),
   Ev("deleted", "s1", "c1", Null, <<"price_standard_monthly", 1>>, "canceled", TRUE),
   Ev("deleted", "s1", "c1", Null, <<"price_standard_monthly", 1>>, "canceled", FALSE),
   Ev("payment_failed", "s1", "c1", Null, <<"price_standard_monthly", 1>>, "active", FALSE),
   Ev("payment_failed", Null, "c1", Null, <<"price_standard_monthly", 1>>, "active", FALSE),
   Ev("other", Null, "c1", Null, <<"price_standard_monthly", 1>>, "active", FALSE)}

(* The database / Stripe calls of a handler that can fail. *)
FailsOf(ev) ==
  IF ev.type \in {"checkout", "updated"} THEN {"none", "read", "write1"}
  ELSE IF ev.type = "deleted" THEN {"none", "write1", "write2"}
  ELSE IF ev.type = "payment_failed" THEN {"none", "write1"}
  ELSE {"none"}

verifyStripeWebhook_trusting(sig) == TRUE

(* stripe.webhooks.constructEvent throws unless the signature matches. *)
verifyStripeWebhook(sig) == sig = "valid"

(* What the webhook POST does with the table, and its response status. *)
WebhookResult(T, sig, ev, fail) ==
  IF sig = "missing" THEN [T |-> T, http |-> 400, handled |-> FALSE]
  ELSE IF ~verifyStripeWebhook(sig) THEN [T |-> T, http |-> 400, handled |-> FALSE]
  ELSE LET r == Dispatch(T, ev, fail)
       IN [T |-> r.T, http |-> IF r.threw THEN 500 ELSE 200, handled |-> TRUE]

Holders(T, sid) == {u \in DOMAIN T : T[u].sid = sid}

(* A webhook request arrives and is handled.  last records the request,    *)
(* the response, whether a row held the event's subscription id, and (when *)
(* track is set) the event itself, whether it repeats the previous one     *)
(* and, for the redelivery of an event that was answered 500, the call     *)
(* that had failed.                                                        *)
Webhook(events, maxDeliv, track, collect) ==
  /\ nDeliv < maxDeliv
  /\ \E sig \in {"missing", "invalid", "valid"}, ev \in events :
     \E fail \in FailsOf(ev) :
       /\ sig # "valid" => (ev.type \in {"deleted", "other"} /\ fail = "none")
       /\ LET r == WebhookResult(subs, sig, ev, fail)
          IN /\ subs' = r.T
             /\ last' = [sig |-> sig, type |-> ev.type, sid |-> ev.sid,
                          cape |-> ev.cape, fail |-> fail, http |-> r.http,
                          handled |-> r.handled,
                          hit |-> Holders(subs, ev.sid) # {},
                          paidActive |-> \E u \in Holders(subs, ev.sid) :
                                           /\ subs[u].plan \in PaidPlans
                                           /\ subs[u].status = "active",
                          ev |-> IF track THEN ev ELSE NoEv,
                          replay |-> /\ track /\ sig = "valid" /\ fail = "none"
                                     /\ last.sig = "valid" /\ last.fail = "none"
                                     /\ last.ev = ev,
                          retry |-> IF /\ track /\ sig = "valid"
                                       /\ last.sig = "valid" /\ last.http = 500
                                       /\ last.ev = ev
                                    THEN last.fail ELSE "none"]
             /\ seen' = IF collect /\ sig = "valid" /\ r.http = 200
                         THEN seen \cup {ev} ELSE seen
  /\ nDeliv' = nDeliv + 1
  /\ UNCHANGED <<usage, now, tz, procs, custs, okIncs, rows>>

(* The trigger on auth.users gives a new user a free row. *)
Signup ==
  /\ \E u \in Users :
       /\ u \notin DOMAIN subs
       /\ subs' = subs @@ (u :> FreeRow)
  /\ UNCHANGED <<usage, now, tz, procs, custs, nDeliv, last, okIncs, seen, rows>>

InitBilling ==
  /\ InitCommon
  /\ tz = [e \in {"server", "browser"} |-> "utc"]
  /\ subs = << >>

NextBilling ==
  \/ Webhook(Events, MaxDeliveries, FALSE, FALSE)
  \/ Signup

SpecBilling == InitBilling /\ [][NextBilling]_vars

(* C5: a webhook request without a signature header, or with a signature   *)
(* that fails verification, is answered with a 4xx status, no handler      *)
(* runs and the subscriptions table is unchanged.                          *)
C5_UnsignedRejected ==
  [][(nDeliv' = nDeliv + 1 /\ last'.sig \in {"missing", "invalid"}) =>
       /\ last'.http >= 400 /\ last'.http <= 499
       /\ ~last'.handled
       /\ subs' = subs]_vars

C5_Witness ==
  /\ last.sig = "invalid" /\ last.type = "deleted" /\ ~last.cape
  /\ last.http = 400
  /\ last.paidActive

FreedRow(r) ==
  /\ r.plan = "free" /\ r.status = "active" /\ r.sid = Null
  /\ r.pStart = 0 /\ r.pEnd = 0

(* C10: a subscription-deleted event with cancel_at_period_end = false,    *)
(* handled without error, turns every paid, active row that holds the      *)
(* event's subscription id into free / active with subscription ref,       *)
(* period start and period end null.                                       *)
C10_ImmediateCancelReverts ==
  [][(/\ nDeliv' = nDeliv + 1
      /\ last'.sig = "valid" /\ last'.type = "deleted" /\ ~last'.cape
      /\ last'.http = 200) =>
       \A u \in DOMAIN subs :
         (/\ subs[u].plan \in PaidPlans /\ subs[u].status = "active"
          /\ subs[u].sid = last'.sid) =>
           /\ FreedRow(subs'[u])
           /\ subs'[u].cust = subs[u].cust]_vars

C10_Witness ==
  /\ last.sig = "valid" /\ last.type = "deleted" /\ ~last.cape
  /\ last.http = 200 /\ last.paidActive
  /\ \E u \in DOMAIN subs : FreedRow(subs[u]) /\ subs[u].cust = "c1"

(* C20: a subscription-deleted event with cancel_at_period_end = true,     *)
(* handled without error, sets status = canceled on the row that holds the *)
(* event's subscription id and leaves its plan, customer id, subscription  *)
(* id, period start and period end as they were.                           *)
C20_CancelAtPeriodEndKeepsPlan ==
  [][(/\ nDeliv' = nDeliv + 1
      /\ last'.sig = "valid" /\ last'.type = "deleted" /\ last'.cape
      /\ last'.http = 200) =>
       \A u \in DOMAIN subs :
         IF subs[u].sid = last'.sid
         THEN subs'[u] = [subs[u] EXCEPT !.status = "canceled"]
         ELSE subs'[u] = subs[u]]_vars

C20_Witness ==
  /\ last.sig = "valid" /\ last.type = "deleted" /\ last.cape
  /\ last.http = 200 /\ last.paidActive
  /\ \E u \in DOMAIN subs :
       /\ subs[u].sid = last.sid /\ subs[u].status = "canceled"
       /\ subs[u].plan = "pro_yearly" /\ subs[u].pEnd = 3

(* C21: a payment-failed event, applied without a database error, sets     *)
(* status = past_due on exactly the rows whose subscription id equals the  *)
(* invoice's and leaves their plan, customer id, subscription id and       *)
(* period bounds as they were; every other row is unchanged, and so is     *)
(* the whole table when the invoice has no subscription id or no row holds *)
(* it.                                                                     *)
C21_PaymentFailedMarksPastDue ==
  [][(/\ nDeliv' = nDeliv + 1
      /\ last'.sig = "valid" /\ last'.type = "payment_failed"
      /\ last'.fail = "none") =>
       /\ last'.http = 200
       /\ DOMAIN subs' = DOMAIN subs
       /\ \A u \in DOMAIN subs :
            IF last'.sid # Null /\ subs[u].sid = last'.sid
            THEN subs'[u] = [subs[u] EXCEPT !.status = "past_due"]
            ELSE subs'[u] = subs[u]
       /\ (last'.sid = Null \/ ~last'.hit) => subs' = subs]_vars

C21_Witness ==
  /\ last.sig = "valid" /\ last.type = "payment_failed" /\ last.fail = "none"
  /\ last.paidActive
  /\ \E u, v \in DOMAIN subs :
       /\ subs[u].sid = last.sid /\ subs[u].status = "past_due"
       /\ subs[u].plan = "premium" /\ subs[u].pEnd = 2
       /\ subs[v].sid # last.sid /\ subs[v].status = "active"

(* ----------------------- checkout-session route ------------------------ *)
CustName(n) == [i \in 1..9 |-> <<"c1", "c2", "c3", "c4", "c5", "c6", "c7", "c8", "c9">>[i]][n]

Falsy(x) == x \in {Null, ""}

(* getOrCreateStripeCustomer, the select of the user's own row. *)
CheckoutRead(i) ==
  /\ i \in 1..Len(procs) /\ procs[i].pc = "co_read"
  /\ LET p == procs[i]
         has == p.user \in DOMAIN subs /\ ~Falsy(subs[p.user].cust)
     IN Set(i, IF has THEN [p EXCEPT !.pc = "co_session", !.cust = subs[p.user].cust]
               ELSE [p EXCEPT !.pc = "co_create"])
  /\ UNCHANGED <<subs, usage, now, tz, custs, nDeliv, last, okIncs, seen, rows>>

(* stripe.customers.create *)
CheckoutCreate(i) ==
  /\ i \in 1..Len(procs) /\ procs[i].pc = "co_create"
  /\ Len(custs) < 9
  /\ custs' = Append(custs, procs[i].user)
  /\ Set(i, [procs[i] EXCEPT !.pc = "co_upsert", !.cust = CustName(Len(custs) + 1)])
  /\ UNCHANGED <<subs, usage, now, tz, nDeliv, last, okIncs, seen, rows>>

(* The upsert of {user_id, stripe_customer_id, plan_type: free, status:    *)
(* active} through the user's session; its error is not looked at.         *)
CheckoutUpsert(i) ==
  /\ i \in 1..Len(procs) /\ procs[i].pc = "co_upsert"
  /\ LET p == procs[i]
     IN /\ subs' =
             IF p.user \notin DOMAIN subs
             THEN IF RlsAllows("user", "subscriptions", "insert")
                  THEN subs @@ (p.user :> Row(p.cust, Null, "free", "active", 0, 0))
                  ELSE subs
             ELSE IF RlsAllows("user", "subscriptions", "update")
                  THEN [subs EXCEPT ![p.user].cust = p.cust,
                                    ![p.user].plan = "free",
                                    ![p.user].status = "active"]
                  ELSE subs
        /\ Set(i, [p EXCEPT !.pc = "co_session"])
  /\ UNCHANGED <<usage, now, tz, custs, nDeliv, last, okIncs, seen, rows>>

getPriceIdForPlan_standard(planType) == STRIPE_PRICE_IDS["standard"]

getPriceIdForPlan(planType) == STRIPE_PRICE_IDS[planType]

(* getPriceIdForPlan, stripe.checkout.sessions.create and the response. *)
CheckoutSession(i) ==
  /\ i \in 1..Len(procs) /\ procs[i].pc = "co_session"
  /\ \E ok \in BOOLEAN :
       Set(i, [procs[i] EXCEPT !.pc = "done", !.http = IF ok THEN 200 ELSE 500,
                               !.price = getPriceIdForPlan(procs[i].req)])
  /\ UNCHANGED <<subs, usage, now, tz, custs, nDeliv, last, okIncs, seen, rows>>

(* --------------- every client request and the webhook ------------------ *)
NextAll ==
  \/ Start(ClientKinds, Users, MeteredFeatures, MaxAllProcs, {TRUE}, {"standard"})
  \/ \E i \in 1..MaxAllProcs + 1 : CheckSub(i, {FALSE})
  \/ \E i \in 1..MaxAllProcs + 1 : UsageSelect(i, {FALSE})
  \/ \E i \in 1..MaxAllProcs + 1 : UsageInsert(i, {FALSE})
  \/ \E i \in 1..MaxAllProcs + 1 : ExternalOp(i, ClientOutcomes)
  \/ \E i \in 1..MaxAllProcs + 1 : UsageUpdate(i, {FALSE})
  \/ \E i \in 1..MaxAllProcs + 1 : CheckoutRead(i)
  \/ \E i \in 1..MaxAllProcs + 1 : CheckoutCreate(i)
  \/ \E i \in 1..MaxAllProcs + 1 : CheckoutUpsert(i)
  \/ \E i \in 1..MaxAllProcs + 1 : CheckoutSession(i)
  \/ Webhook(ReplayEvents, MaxAllDeliveries, FALSE, FALSE)
  \/ Signup

SpecAll == InitBilling /\ [][NextAll]_vars

(* C6: plan_type and status of an existing subscriptions row change only   *)
(* in a step of the webhook handler on a signature-verified event; no step *)
(* of a client request (entitlement check, increment, metered endpoint,    *)
(* usage snapshot, checkout-session creation) changes them.                *)
C6_OnlyWebhookWritesPlan ==
  [][\A u \in DOMAIN subs :
       (subs'[u].plan # subs[u].plan \/ subs'[u].status # subs[u].status) =>
         /\ nDeliv' = nDeliv + 1
         /\ last'.sig = "valid" /\ last'.handled
         /\ procs' = procs]_vars

C6_Witness ==
  \E i \in 1..Len(procs) :
    /\ procs[i].kind = "checkout" /\ procs[i].pc = "done"
    /\ procs[i].user \in DOMAIN subs
    /\ subs[procs[i].user].plan \in PaidPlans
    /\ procs[i].cust # subs[procs[i].user].cust
    /\ Len(custs) >= 1

(* -------------------- deliveries in arbitrary order -------------------- *)
(* One subscription's life as the processor emits it: checkout, plan       *)
(* change, failed payment, recovery with renewal, immediate cancellation.  *)
Lifecycle ==
  <<Ev("checkout", "s1", "c1", "u1", <<"price_standard_monthly", 1>>, "active", FALSE),
    Ev("updated", "s1", "c1", "u1", <<"price_premium_monthly", 1>>, "active", FALSE),
    Ev("payment_failed", "s1", "c1", Null, <<"price_standard_monthly", 1>>, "active", FALSE),
    Ev("updated", "s1", "c1", "u1", <<"price_pro_yearly", 2>>, "active", FALSE),
    Ev("deleted", "s1", "c1", Null, <<"price_standard_monthly", 1>>, "canceled", FALSE)>>

LifecycleEvents == {Lifecycle[i] : i \in 1..Len(Lifecycle)}

RECURSIVE ApplyAll(_, _)
ApplyAll(T, evs) ==
  IF evs = << >> THEN T
  ELSE ApplyAll(Dispatch(T, Head(evs), "none").T, Tail(evs))

InitOrder ==
  /\ InitCommon
  /\ tz = [e \in {"server", "browser"} |-> "utc"]
  /\ subs = [u \in Users |-> FreeRow]

NextOrder == Webhook(LifecycleEvents, MaxOrderDeliveries, FALSE, TRUE)

SpecOrder == InitOrder /\ [][NextOrder]_vars

(* C9: whatever the order in which the events of one subscription are      *)
(* delivered, and whichever are replayed, once each has been handled the   *)
(* table equals the one obtained by handling each once in causal order.    *)
C9_OrderTolerant ==
  seen = LifecycleEvents =>
    subs = ApplyAll([u \in Users |-> FreeRow], Lifecycle)

(* ------------------- replayed deliveries of one event ------------------ *)
NextReplay ==
  \/ Webhook(ReplayEvents, MaxReplays, TRUE, FALSE)
  \/ Signup

SpecReplay == InitBilling /\ [][NextReplay]_vars

(* C4: for every billing event and every subscriptions table, handling the *)
(* same event twice in a row leaves the table (tier, status, external      *)
(* refs, period bounds) as handling it once does.                          *)
C4_EventIdempotent ==
  /\ \A ev \in Events :
       LET once == Dispatch(subs, ev, "none").T
       IN Dispatch(once, ev, "none").T = once
  /\ last.replay => subs = Dispatch(subs, last.ev, "none").T

C4_Witness ==
  /\ last.replay
  /\ last.type = "deleted" /\ ~last.cape
  /\ \E u \in DOMAIN subs : FreedRow(subs[u]) /\ subs[u].cust = "c1"

(* ----------------------- unrecognized price id -------------------------- *)
(* C11: a subscription-updated event of a known user whose price id is not *)
(* a key of PRICE_ID_TO_PLAN is answered with an error status (not the     *)
(* 200 acknowledgement) and leaves the subscriptions table unchanged.      *)
C11_UnknownPriceRejected ==
  [][(/\ nDeliv' = nDeliv + 1
      /\ last'.sig = "valid" /\ last'.fail = "none"
      /\ last'.ev.type = "updated"
      /\ getPlanTypeFromPriceId(last'.ev.price) = Null
      /\ (last'.ev.user # Null \/ last'.hit)) =>
       /\ last'.http >= 400
       /\ subs' = subs]_vars

(* C22: a subscription-updated event on a known price, handled without a   *)
(* database error: with a user id in the metadata that user's row is the   *)
(* one written, whichever row holds the event's subscription id; without   *)
(* it the one row holding the subscription id is written; when neither     *)
(* resolves the table is unchanged and the response is 200.  Either way    *)
(* the row written carries the event's customer, subscription id, plan,    *)
(* mapped status and period bounds, and no other row changes.              *)
C22_MetadataUserFirst ==
  [][(/\ nDeliv' = nDeliv + 1
      /\ last'.sig = "valid" /\ last'.fail = "none"
      /\ last'.ev.type = "updated"
      /\ getPlanTypeFromPriceId(last'.ev.price) # Null) =>
       LET ev == last'.ev
           hs == {u \in DOMAIN subs : subs[u].sid = ev.sid}
           written == Row(ev.cust, ev.sid, PRICE_ID_TO_PLAN[ev.price],
                          MapStatus(ev.status), ev.period, ev.period + 1)
           target == IF ev.user # Null THEN {ev.user}
                     ELSE IF Cardinality(hs) = 1 THEN hs ELSE {}
       IN /\ last'.http = 200
          /\ DOMAIN subs' = DOMAIN subs \cup target
          /\ \A u \in DOMAIN subs' :
               IF u \in target THEN subs'[u] = written ELSE subs'[u] = subs[u]]_vars

C22_Witness ==
  /\ last.sig = "valid" /\ last.fail = "none" /\ last.ev.type = "updated"
  /\ last.ev.user = "u2" /\ last.ev.sid = "s1"
  /\ "u1" \in DOMAIN subs /\ subs["u1"].sid = "s1" /\ subs["u1"].plan = "premium"
  /\ "u2" \in DOMAIN subs /\ subs["u2"].sid = "s1" /\ subs["u2"].plan = "standard"
  /\ subs["u2"].status = "trialing"

(* C25: a signature-verified event is answered 200 when no call of its     *)
(* handler throws, in particular for an unhandled event type and for an    *)
(* event whose user cannot be resolved, and these two leave the table      *)
(* unchanged; when upsertSubscription, cancelSubscription or               *)
(* revertToFreePlan fails the answer is 500.                               *)
C25_AckUnlessPersistenceError ==
  [][(nDeliv' = nDeliv + 1 /\ last'.sig = "valid") =>
       LET ev == last'.ev
           fail == last'.fail
           hs == {u \in DOMAIN subs : subs[u].sid = ev.sid}
           unresolved ==
             \/ ev.type = "checkout" /\ (ev.sid = Null \/ ev.user = Null)
             \/ ev.type = "updated" /\ ev.user = Null /\ Cardinality(hs) # 1
           upserts ==
             /\ ev.type \in {"checkout", "updated"} /\ ~unresolved
             /\ ev.price \in DOMAIN PRICE_ID_TO_PLAN
       IN /\ last'.http \in {200, 500}
          /\ fail = "none" => last'.http = 200
          /\ ev.type = "other" => (last'.http = 200 /\ subs' = subs)
          /\ (unresolved /\ fail # "read") => (last'.http = 200 /\ subs' = subs)
          /\ (upserts /\ fail = "write1") => last'.http = 500
          /\ (ev.type = "deleted" /\ fail = "write1") => last'.http = 500
          /\ (ev.type = "deleted" /\ ~ev.cape /\ fail = "write2") =>
               last'.http = 500]_vars

C25_Witness ==
  /\ last.sig = "valid" /\ last.ev.type = "deleted" /\ ~last.ev.cape
  /\ last.fail = "write2" /\ last.http = 500 /\ last.paidActive
  /\ \E u \in DOMAIN subs :
       /\ subs[u].sid = last.ev.sid /\ subs[u].status = "canceled"
       /\ subs[u].plan \in PaidPlans

(* C26: an immediate subscription-deleted event whose handling stopped     *)
(* after cancelSubscription and before revertToFreePlan, then redelivered  *)
(* until it is handled without error: the rows holding its subscription id *)
(* end free, active, with subscription id and period bounds null, the      *)
(* other rows are untouched, and the table is the one a single             *)
(* uninterrupted handling gives.                                           *)
C26_RetryAfterPartialFailure ==
  [][/\ \A ev \in {e \in DeletedEvents : ~e.cape} :
          LET full == Dispatch(subs, ev, "none").T
              part == Dispatch(subs, ev, "write2").T
          IN /\ Dispatch(part, ev, "none").T = full
             /\ Dispatch(Dispatch(part, ev, "write2").T, ev, "none").T = full
             /\ Dispatch(Dispatch(part, ev, "write1").T, ev, "none").T = full
     /\ (/\ nDeliv' = nDeliv + 1
         /\ last'.retry \in {"write1", "write2"} /\ last'.fail = "none"
         /\ last'.ev.type = "deleted" /\ ~last'.ev.cape) =>
          /\ last'.http = 200
          /\ \A u \in DOMAIN subs :
               IF subs[u].sid = last'.ev.sid
               THEN FreedRow(subs'[u]) /\ subs'[u].cust = subs[u].cust
               ELSE subs'[u] = subs[u]]_vars

C26_Witness ==
  /\ last.retry = "write2" /\ last.fail = "none" /\ last.http = 200
  /\ last.ev.type = "deleted" /\ ~last.ev.cape
  /\ last.hit /\ ~last.paidActive
  /\ \E u \in DOMAIN subs : FreedRow(subs[u]) /\ subs[u].cust = "c1"

(* ------------------ checkout session, then its event ------------------- *)
(* The checkout-completed events Stripe emits for the sessions created so  *)
(* far: the session's customer, the metadata user and the subscription on  *)
(* the session's price.                                                    *)
SessionEvents ==
  UNION {{Ev("checkout", sid, procs[i].cust, procs[i].user, sn, "active", FALSE) :
            sid \in SubIds, sn \in {x \in Snapshots : x[1] = procs[i].price}} :
         i \in {j \in 1..Len(procs) :
                  /\ procs[j].kind = "checkout" /\ procs[j].pc = "done"
                  /\ procs[j].http = 200}}

NextRound ==
  \/ Start({"checkout"}, Users, {"ocr"}, MaxRoundProcs, BOOLEAN, CheckoutPlans)
  \/ \E i \in 1..MaxRoundProcs + 1 : CheckoutRead(i)
  \/ \E i \in 1..MaxRoundProcs + 1 : CheckoutCreate(i)
  \/ \E i \in 1..MaxRoundProcs + 1 : CheckoutUpsert(i)
  \/ \E i \in 1..MaxRoundProcs + 1 : CheckoutSession(i)
  \/ Webhook(SessionEvents, MaxRoundDeliveries, TRUE, FALSE)
  \/ Signup

SpecRound == InitBilling /\ [][NextRound]_vars

(* C12: a checkout session created for paid plan p uses the price          *)
(* STRIPE_PRICE_IDS[p], and handling the checkout-completed event on that  *)
(* price for that user leaves the user's row with plan p, status active    *)
(* and the event's subscription id and period bounds; PRICE_ID_TO_PLAN     *)
(* inverts STRIPE_PRICE_IDS.                                               *)
C12_CheckoutRoundTrip ==
  [][/\ \A p \in PaidPlans : PRICE_ID_TO_PLAN[STRIPE_PRICE_IDS[p]] = p
     /\ (/\ nDeliv' = nDeliv + 1
         /\ last'.sig = "valid" /\ last'.fail = "none"
         /\ last'.ev.type = "checkout") =>
          \A i \in 1..Len(procs) :
            (/\ procs[i].kind = "checkout" /\ procs[i].pc = "done"
             /\ procs[i].http = 200
             /\ procs[i].user = last'.ev.user
             /\ procs[i].price = last'.ev.price) =>
              /\ procs[i].price = STRIPE_PRICE_IDS[procs[i].req]
              /\ last'.http = 200
              /\ subs'[procs[i].user] =
                    Row(last'.ev.cust, last'.ev.sid, procs[i].req, "active",
                        last'.ev.period, last'.ev.period + 1)]_vars

C12_Witness ==
  /\ last.sig = "valid" /\ last.fail = "none" /\ last.ev.type = "checkout"
  /\ last.ev.price = STRIPE_PRICE_IDS["pro_yearly"]
  /\ last.ev.user \in DOMAIN subs
  /\ subs[last.ev.user].plan = "pro_yearly"
  /\ subs[last.ev.user].sid = last.ev.sid
  /\ \E i \in 1..Len(procs) :
       /\ procs[i].kind = "checkout" /\ procs[i].http = 200
       /\ procs[i].req = "pro_yearly" /\ procs[i].user = last.ev.user

(* -------------------- cancellation at period end ----------------------- *)
(* pEnd is the month at whose start the paid period ends: the period end   *)
(* has passed once the current month has reached it.                       *)
PeriodEnded(r) == r.pEnd # 0 /\ now >= r.pEnd

NextExpiry ==
  \/ Webhook(ReplayEvents, MaxExpiryDeliveries, FALSE, FALSE)
  \/ Start(CheckedKinds, MeterUsers, {"ocr"}, MaxExpiryProcs, {TRUE}, {"none"})
  \/ \E i \in 1..MaxExpiryProcs + 1 : CheckSub(i, {FALSE})
  \/ \E i \in 1..MaxExpiryProcs + 1 : UsageSelect(i, {FALSE})
  \/ \E i \in 1..MaxExpiryProcs + 1 : UsageInsert(i, {FALSE})
  \/ \E i \in 1..MaxExpiryProcs + 1 : ExternalOp(i, {"ok"})
  \/ \E i \in 1..MaxExpiryProcs + 1 : UsageUpdate(i, {FALSE})
  \/ Tick

(* Time passes and every request that has started is served; Stripe is not *)
(* obliged to send anything further.                                       *)
FairExpiry ==
  /\ WF_vars(Tick)
  /\ \A i \in 1..MaxExpiryProcs + 1 :
       /\ WF_vars(CheckSub(i, {FALSE}))
       /\ WF_vars(UsageSelect(i, {FALSE}))
       /\ WF_vars(UsageInsert(i, {FALSE}))
       /\ WF_vars(ExternalOp(i, {"ok"}))
       /\ WF_vars(UsageUpdate(i, {FALSE}))

SpecExpiry == InitOrder /\ [][NextExpiry]_vars /\ FairExpiry

(* C13: a row that is canceled on a paid plan and whose period end has     *)
(* passed is eventually back on the free plan.                             *)
C13_RevertedAfterPeriodEnd ==
  \A u \in Users :
    (/\ u \in DOMAIN subs
     /\ subs[u].status = "canceled" /\ subs[u].plan \in PaidPlans
     /\ PeriodEnded(subs[u]))
      ~> (getUserPlanType(u) = "free")

(* ------------- one metered request, ledger at any fill level ----------- *)
(* Ledger entries a user can have built up in the current month: nothing   *)
(* used, one use left, or every free quota used up.                        *)
LedgerStarts ==
  {ZeroCounters, [f \in Features |-> FreeLimit(f) - 1], [f \in Features |-> FreeLimit(f)]}

CurrentKeys ==
  {formatDateForDatabase(getCurrentPeriodStart(1), z) : z \in {"utc", "east"}}

InitEndpoint ==
  /\ now = 1
  /\ tz \in [{"server", "browser"} -> {"utc", "east"}]
  /\ procs = << >>
  /\ custs = << >>
  /\ nDeliv = 0
  /\ last = NoLast
  /\ seen = {}
  /\ \E p \in PlanTypes :
       subs = [u \in Users |-> IF p = "free" THEN FreeRow
                                ELSE [cust |-> "c1", sid |-> "s1", plan |-> p,
                                      status |-> "active", pStart |-> 1, pEnd |-> 2]]
  /\ \/ usage = << >>
     \/ \E c \in LedgerStarts :
          usage = [k \in MeterUsers \X CurrentKeys |-> c]
  /\ okIncs = usage
  /\ rows = [k \in DOMAIN usage |-> 1]

NextEndpoint ==
  \/ Start(EndpointKinds, MeterUsers, Features, MaxEndpointProcs, BOOLEAN, {"none"})
  \/ \E i \in 1..MaxEndpointProcs + 1 : CheckSub(i, BOOLEAN)
  \/ \E i \in 1..MaxEndpointProcs + 1 : UsageSelect(i, BOOLEAN)
  \/ \E i \in 1..MaxEndpointProcs + 1 : UsageInsert(i, BOOLEAN)
  \/ \E i \in 1..MaxEndpointProcs + 1 : ExternalOp(i, ExtOutcomes)
  \/ \E i \in 1..MaxEndpointProcs + 1 : UsageUpdate(i, BOOLEAN)

SpecEndpoint == InitEndpoint /\ [][NextEndpoint]_vars

(* C14: when the external operation of a metered endpoint succeeded and    *)
(* the incrementUsage call that follows fails (select, insert or update    *)
(* error), the request still ends with the success response.               *)
C14_IncrementFailureSwallowed ==
  \A i \in 1..Len(procs) :
    (/\ IsEndpoint(procs[i]) /\ procs[i].ext = "ok"
     /\ procs[i].incCalled /\ procs[i].pc = "done" /\ ~procs[i].incOk) =>
      /\ procs[i].http = 200
      /\ ~procs[i].threw

C14_Witness ==
  \E i \in 1..Len(procs) :
    /\ procs[i].kind = "ai_assistant" /\ procs[i].ext = "ok"
    /\ procs[i].incCalled /\ procs[i].pc = "done" /\ ~procs[i].incOk
    /\ procs[i].http = 200
    /\ Counter(procs[i].user, procs[i].key, "ai_assistant") = FreeLimit("ai_assistant") - 1

(* C15: a route request whose checkUsageLimit returned allowed = false     *)
(* ends with status 403 and code USAGE_LIMIT_EXCEEDED, its usageInfo       *)
(* repeats currentUsage, limit, remaining and planType of that check, and  *)
(* neither the external operation nor incrementUsage runs.                 *)
C15_DeniedIsQuotaError ==
  \A i \in 1..Len(procs) :
    (/\ procs[i].kind \in ServerKinds
     /\ procs[i].res.planType # "none" /\ ~procs[i].res.allowed) =>
      /\ procs[i].pc = "done"
      /\ procs[i].http = 403
      /\ procs[i].code = "USAGE_LIMIT_EXCEEDED"
      /\ procs[i].info.currentUsage = procs[i].res.currentUsage
      /\ procs[i].info.limit = procs[i].res.limit
      /\ procs[i].info.remaining = procs[i].res.remaining
      /\ procs[i].info.planType = procs[i].res.planType
      /\ procs[i].ext = "none"
      /\ ~procs[i].incCalled

C15_Witness ==
  \E i \in 1..Len(procs) :
    /\ procs[i].kind = "ocr" /\ procs[i].http = 403
    /\ procs[i].info.currentUsage = FreeLimit("ocr")
    /\ procs[i].info.limit = Num(FreeLimit("ocr"))
    /\ procs[i].info.remaining = Num(0)
    /\ procs[i].info.planType = "free"

(* ------------------- two users, everything interleaved ----------------- *)
(* Stripe side: each subscription carries the user id of the checkout that *)
(* created it (subscription_data.metadata.supabase_user_id).               *)
SidOwner == [s1 |-> "u1", s2 |-> "u2"]

EventOwner(ev) ==
  IF ev.user # Null THEN ev.user
  ELSE IF ev.sid # Null THEN SidOwner[ev.sid]
  ELSE "nobody"

OtherUser(u) == IF u = "u1" THEN "u2" ELSE IF u = "u2" THEN "u1" ELSE u
OtherSid(x) == IF x = "s1" THEN "s2" ELSE IF x = "s2" THEN "s1" ELSE x

(* One event of every handled type on the subscription of u1, and the     *)
(* same events on the subscription of u2.                                  *)
IsolationEvents ==
  LET own ==
        {Ev("checkout", "s1", "c1", "u1", <<"price_standard_monthly", 1>>, "active", FALSE),
         Ev("updated", "s1", "c1", Null, <<"price_premium_monthly", 1>>, "past_due", FALSE),
         Ev("deleted", "s1", "c1", Null, <<"price_standard_monthly", 1>>, "canceled", FALSE),
         Ev("payment_failed", "s1", "c1", Null, <<"price_standard_monthly", 1>>, "active", FALSE)}
  IN own \cup {[ev EXCEPT !.user = OtherUser(ev.user), !.sid = OtherSid(ev.sid)] :
                 ev \in own}

(* The rows of T that belong to user u. *)
Solo(T, u) == [x \in DOMAIN T \cap {u} |-> T[x]]

(* The ledger entries of user u. *)
Ledger(u) == [k \in {x \in DOMAIN usage : x[1] = u} |-> usage[k]]

NextIsolation ==
  \/ Start(IsoKinds, Users, {"ocr"}, MaxIsoProcs, {TRUE},
           {"premium"})
  \/ \E i \in 1..MaxIsoProcs + 1 : CheckSub(i, {FALSE})
  \/ \E i \in 1..MaxIsoProcs + 1 : UsageSelect(i, {FALSE})
  \/ \E i \in 1..MaxIsoProcs + 1 : UsageInsert(i, {FALSE})
  \/ \E i \in 1..MaxIsoProcs + 1 : ExternalOp(i, {"ok"})
  \/ \E i \in 1..MaxIsoProcs + 1 : UsageUpdate(i, {FALSE})
  \/ \E i \in 1..MaxIsoProcs + 1 : CheckoutRead(i)
  \/ \E i \in 1..MaxIsoProcs + 1 : CheckoutCreate(i)
  \/ \E i \in 1..MaxIsoProcs + 1 : CheckoutUpsert(i)
  \/ \E i \in 1..MaxIsoProcs + 1 : CheckoutSession(i)
  \/ Webhook(IsolationEvents, MaxIsoDeliveries, TRUE, FALSE)
  \/ Signup

(* Nobody has signed up yet, or both users have subscribed. *)
InitIsolation ==
  /\ InitCommon
  /\ tz = [e \in {"server", "browser"} |-> "utc"]
  /\ subs \in {<< >>,
               [u \in Users |->
                  IF u = "u1" THEN Row("c1", "s1", "standard", "active", 1, 2)
                  ELSE Row("c2", "s2", "pro_yearly", "active", 2, 3)]}

SpecIsolation == InitIsolation /\ [][NextIsolation]_vars

StartNext(kinds, users, feats, cap) ==
  /\ InFlight = {}
  /\ \E kind \in kinds, u \in users, f \in feats :
       /\ kind \in EndpointKinds => f = kind
       /\ kind \in {"inc"} \cup EndpointKinds =>
            Counter(u, PeriodKey(kind, f), f) < cap[f]
       /\ procs' = <<Arrival(kind, u, f, TRUE, "none")>>
  /\ UNCHANGED <<subs, usage, now, tz, custs, nDeliv, last, okIncs, seen, rows>>

(* The month changes between two calls. *)
TickIdle == InFlight = {} /\ Tick

MonthCap ==
  [f \in Features |-> IF f = "export" THEN FreeLimit(f) + MaxOver ELSE 1]

(* The period_start values the code computes during month m, whatever the  *)
(* time zone of the runtime.                                               *)
KeysOfMonth(m) ==
  {formatDateForDatabase(getCurrentPeriodStart(m), z) : z \in {"utc", "east"}}

NextMonths ==
  \/ StartNext(MonthKinds, MeterUsers, MeteredFeatures, MonthCap)
  \/ CheckSub(1, {FALSE})
  \/ UsageSelect(1, {FALSE})
  \/ UsageInsert(1, {FALSE})
  \/ ExternalOp(1, {"ok"})
  \/ UsageUpdate(1, {FALSE})
  \/ TickIdle

SpecMonths == InitRace /\ [][NextMonths]_vars

(* C18: counters are kept per calendar month: an entry is created with all *)
(* counters 0, the entries of earlier months are not changed, a user has   *)
(* one entry for the current month that every read and increment of the    *)
(* month uses, and a check in a month without increments so far allows.    *)
C18_MonthScopedCounters ==
  [][/\ \A k \in DOMAIN usage' \ DOMAIN usage : usage'[k] = ZeroCounters
     /\ \A k \in DOMAIN usage :
          k[2] \notin KeysOfMonth(now) => usage'[k] = usage[k]
     /\ \A u \in MeterUsers :
          Cardinality({k \in DOMAIN usage' :
                         k[1] = u /\ k[2] \in KeysOfMonth(now')}) <= 1
     /\ \A i \in 1..Len(procs') :
          (/\ procs'[i].kind = "check" /\ procs'[i].pc = "done"
           /\ procs'[i].key \in KeysOfMonth(now')
           /\ \A k \in DOMAIN okIncs' :
                (k[1] = procs'[i].user /\ k[2] \in KeysOfMonth(now')) =>
                  okIncs'[k][procs'[i].feature] = 0) =>
            procs'[i].res.allowed]_vars

(* ---------------- quota lookup on arbitrary inputs ---------------------- *)
(* Runtime values of the planType and feature arguments: the catalog's     *)
(* names and one name the catalog does not have.                           *)
TierInputs == PlanTypes \cup {"enterprise"}
FeatureInputs == Features \cup {"bulk_import"}

(* getFeatureLimit reads limits.ocrLimit etc. of PLAN_LIMITS[planType]:    *)
(* with an unknown plan that is a property of undefined, a TypeError; the  *)
(* default branch of the switch does not touch limits.                     *)
getFeatureLimitThrows(planType, feature) ==
  planType \notin PlanTypes /\ feature \in Features

(* A direct call getFeatureLimit(planType, feature). *)
LimitCall ==
  /\ InFlight = {}
  /\ \E t \in TierInputs, f \in FeatureInputs :
       procs' = <<[NewProc("limit", "u1", f, "done", 0) EXCEPT
                    !.req = t,
                    !.threw = getFeatureLimitThrows(t, f),
                    !.res = IF getFeatureLimitThrows(t, f) THEN NoRes
                            ELSE [NoRes EXCEPT !.limit = getFeatureLimit(t, f),
                                               !.planType = t]]>>
  /\ UNCHANGED <<subs, usage, now, tz, custs, nDeliv, last, okIncs, seen, rows>>

NextCatalog ==
  \/ StartNext({"check"}, MeterUsers, FeatureInputs, MonthCap)
  \/ LimitCall
  \/ CheckSub(1, {FALSE})
  \/ UsageSelect(1, {FALSE})
  \/ UsageInsert(1, {FALSE})

SpecCatalog == InitEndpoint /\ [][NextCatalog]_vars

(* C19: for a plan or a feature the catalog does not have, getFeatureLimit *)
(* returns 0, and checkUsageLimit on a feature the catalog does not have   *)
(* denies with limit 0: never unlimited.                                   *)
C19_UnknownPairFailsClosed ==
  \A i \in 1..Len(procs) :
    LET p == procs[i]
    IN /\ (/\ p.kind = "limit"
           /\ (p.req \notin PlanTypes \/ p.feature \notin Features)) =>
            (~p.threw /\ p.res.limit = Num(0))
       /\ (/\ p.kind = "check" /\ p.pc = "done" /\ ~p.threw
           /\ p.feature \notin Features) =>
            (~p.res.allowed /\ p.res.limit = Num(0))


(* ------------- entitlement checks called one after another ------------- *)
(* The next library call starts when the previous one has returned; the    *)
(* calls made so far are kept in order.                                    *)
StartIdle(kinds, users, feats, maxProcs) ==
  /\ InFlight = {}
  /\ Start(kinds, users, feats, maxProcs, {TRUE}, {"none"})

NextChecks ==
  \/ StartIdle(CallKinds, MeterUsers, MeteredFeatures, MaxCheckCalls)
  \/ \E i \in 1..MaxCheckCalls + 1 : CheckSub(i, BOOLEAN)
  \/ \E i \in 1..MaxCheckCalls + 1 : UsageSelect(i, BOOLEAN)
  \/ \E i \in 1..MaxCheckCalls + 1 : UsageInsert(i, BOOLEAN)
  \/ \E i \in 1..MaxCheckCalls + 1 : UsageUpdate(i, BOOLEAN)
  \/ TickIdle

SpecChecks == InitEndpoint /\ [][NextChecks]_vars

(* C23: no step of a checkUsageLimit call changes a counter of an existing *)
(* ledger entry; the only write of a call is the creation of the entry of  *)
(* the caller's current month with every counter 0; and of two calls for   *)
(* the same user, feature and month made one right after the other, the    *)
(* second returns what the first returned.                                 *)
C23_CheckWritesNoCounter ==
  [][/\ \A i \in 1..Len(procs') :
          (/\ procs'[i].kind = "check"
           /\ (i > Len(procs) \/ procs'[i] # procs[i])) =>
            /\ \A k \in DOMAIN usage : k \in DOMAIN usage' /\ usage'[k] = usage[k]
            /\ \A k \in DOMAIN usage' \ DOMAIN usage :
                 /\ \A f \in Features : usage'[k][f] = 0
                 /\ k = <<procs'[i].user, PeriodKey("check", procs'[i].feature)>>
     /\ \A i \in 1..Len(procs') - 1 :
          LET p == procs'[i]
              q == procs'[i + 1]
          IN (/\ p.kind = "check" /\ q.kind = "check"
              /\ p.pc = "done" /\ q.pc = "done" /\ ~p.threw /\ ~q.threw
              /\ p.user = q.user /\ p.feature = q.feature /\ p.key = q.key) =>
               q.res = p.res]_vars

C23_Witness ==
  /\ now = 2 /\ Len(procs) = 2
  /\ \A i \in 1..2 :
       /\ procs[i].kind = "check" /\ procs[i].pc = "done" /\ ~procs[i].threw
       /\ procs[i].feature = "export" /\ procs[i].res.planType = "free"
       /\ procs[i].key \in KeysOfMonth(2)
  /\ procs[1].res = procs[2].res
  /\ <<"u1", procs[1].key>> \in DOMAIN usage
  /\ usage[<<"u1", procs[1].key>>] = [f \in Features |-> 0]
  /\ \E k \in DOMAIN usage : usage[k]["export"] = FreeLimit("export")

(* ------------- at most two requests of a user in flight ---------------- *)
InFlightLimit == 2

(* A request arrives while fewer than InFlightLimit are being served. *)
StartFew(kinds, users, feats, maxProcs) ==
  /\ Cardinality(InFlight) < InFlightLimit
  /\ Start(kinds, users, feats, maxProcs, {TRUE}, {"none"})

NextSoft ==
  \/ StartFew({"export"}, MeterUsers, {"export"}, MaxSoftCalls)
  \/ \E i \in 1..MaxSoftCalls + 1 : CheckSub(i, {FALSE})
  \/ \E i \in 1..MaxSoftCalls + 1 : UsageSelect(i, {FALSE})
  \/ \E i \in 1..MaxSoftCalls + 1 : UsageInsert(i, {FALSE})
  \/ \E i \in 1..MaxSoftCalls + 1 : ExternalOp(i, {"ok"})
  \/ \E i \in 1..MaxSoftCalls + 1 : UsageUpdate(i, {FALSE})

SpecSoft == InitRace /\ [][NextSoft]_vars

(* C24: with at most two requests of a free user for one feature in flight *)
(* at any time, the gated operations that succeed in one month are at most *)
(* the feature's limit plus one.                                           *)
C24_SoftLimitBound ==
  \A u \in MeterUsers, f \in Features :
    Cardinality({i \in 1..Len(procs) :
                   /\ procs[i].user = u /\ procs[i].feature = f
                   /\ IsEndpoint(procs[i]) /\ procs[i].ext = "ok"}) <= FreeLimit(f) + 1

(* --------------- checkout requests of a signed-up user ----------------- *)
NextCustomers ==
  \/ Start({"checkout"}, MeterUsers, {"ocr"}, MaxCustomerCalls, {TRUE}, PaidPlans)
  \/ \E i \in 1..MaxCustomerCalls + 1 : CheckoutRead(i)
  \/ \E i \in 1..MaxCustomerCalls + 1 : CheckoutCreate(i)
  \/ \E i \in 1..MaxCustomerCalls + 1 : CheckoutUpsert(i)
  \/ \E i \in 1..MaxCustomerCalls + 1 : CheckoutSession(i)

SpecCustomers == InitOrder /\ [][NextCustomers]_vars

(* C27: for each user at most one Stripe customer is ever created: the     *)
(* customer of the first checkout request is stored in the user's row and  *)
(* every later or overlapping request uses it.                             *)
C27_OneCustomerPerUser ==
  \A u \in Users :
    /\ Cardinality({n \in 1..Len(custs) : custs[n] = u}) <= 1
    /\ \A i, j \in 1..Len(procs) :
         (/\ procs[i].user = u /\ procs[j].user = u
          /\ procs[i].cust # "" /\ procs[j].cust # "") =>
           procs[i].cust = procs[j].cust

(* ------------- checkout requests and billing events, rows -------------- *)
(* One event of every type and, besides, checkout sessions that carry no   *)
(* subscription id.                                                        *)
RecordEvents ==
  ReplayEvents \cup
    {Ev("checkout", Null, c, "u1", <<"price_standard_monthly", 1>>, "active", FALSE) :
       c \in EvCusts}

NextRecords ==
  \/ Start({"checkout"}, Users, {"ocr"}, MaxRecordProcs, {TRUE}, {"premium"})
  \/ \E i \in 1..MaxRecordProcs + 1 : CheckoutRead(i)
  \/ \E i \in 1..MaxRecordProcs + 1 : CheckoutCreate(i)
  \/ \E i \in 1..MaxRecordProcs + 1 : CheckoutUpsert(i)
  \/ \E i \in 1..MaxRecordProcs + 1 : CheckoutSession(i)
  \/ Webhook(RecordEvents, MaxRecordDeliveries, FALSE, FALSE)
  \/ Signup

SpecRecords == InitBilling /\ [][NextRecords]_vars

(* C28: in every reachable state a row on the free plan has subscription   *)
(* id, period start and period end null, and a row on a paid plan has all  *)
(* three set.                                                              *)
C28_PeriodFieldsFollowPlan ==
  \A u \in DOMAIN subs :
    IF subs[u].plan = "free"
    THEN subs[u].sid = Null /\ subs[u].pStart = 0 /\ subs[u].pEnd = 0
    ELSE /\ subs[u].plan \in PaidPlans
         /\ subs[u].sid # Null /\ subs[u].pStart # 0 /\ subs[u].pEnd # 0

C28_Witness ==
  /\ \E i \in 1..Len(procs) :
       /\ procs[i].kind = "checkout" /\ procs[i].pc = "done" /\ procs[i].http = 200
       /\ procs[i].user = "u2" /\ procs[i].cust = CustName(1)
  /\ "u2" \in DOMAIN subs /\ subs["u2"].cust = ""
  /\ subs["u2"].plan = "pro_yearly" /\ subs["u2"].sid = "s2" /\ subs["u2"].pEnd = 3
  /\ "u1" \in DOMAIN subs /\ subs["u1"].plan = "free" /\ subs["u1"].sid = Null

(* ------------- entitlement check against any billing status ------------ *)
RowStatuses == {"active", "canceled", "past_due", "trialing"}

(* The rows the reconciler can leave behind for a user: the free row, or a *)
(* paid row in any status with its period running from month 1 to month 2. *)
InitStatus ==
  /\ now = 1
  /\ tz \in [{"server", "browser"} -> {"utc", "east"}]
  /\ procs = << >>
  /\ custs = << >>
  /\ nDeliv = 0
  /\ last = NoLast
  /\ seen = {}
  /\ \E r \in {FreeRow} \cup {Row("c1", "s1", p, st, 1, 2) :
                                 p \in PaidPlans, st \in RowStatuses} :
       subs = [u \in Users |-> r]
  /\ \/ usage = << >>
     \/ \E c \in LedgerStarts :
          usage = [k \in MeterUsers \X CurrentKeys |-> c]
  /\ okIncs = usage
  /\ rows = [k \in DOMAIN usage |-> 1]

NextStatus ==
  \/ Start(CheckedKinds, MeterUsers, {"ocr"}, MaxStatusProcs, {TRUE}, {"none"})
  \/ \E i \in 1..MaxStatusProcs + 1 : CheckSub(i, {FALSE})
  \/ \E i \in 1..MaxStatusProcs + 1 : UsageSelect(i, {FALSE})
  \/ \E i \in 1..MaxStatusProcs + 1 : UsageInsert(i, {FALSE})
  \/ \E i \in 1..MaxStatusProcs + 1 : ExternalOp(i, {"ok"})
  \/ \E i \in 1..MaxStatusProcs + 1 : UsageUpdate(i, {FALSE})
  \/ TickIdle

SpecStatus == InitStatus /\ [][NextStatus]_vars

(* C29: what checkUsageLimit returns is determined by the plan of the      *)
(* user's row and the current month's counter: status and period end of    *)
(* the row play no part, so a row on a paid plan gets allowed with limit   *)
(* and remaining Infinity also when it is past_due or canceled or past its *)
(* period end.                                                             *)
C29_StatusPlaysNoPart ==
  [][\A i \in 1..Len(procs') :
       LET p == procs'[i]
           plan == subs[p.user].plan
           L == FreeLimit(p.feature)
       IN p.res.planType # "none" =>
            /\ p.res.planType = plan
            /\ IF plan \in PaidPlans
               THEN /\ p.res.allowed
                    /\ p.res.limit = Infinity /\ p.res.remaining = Infinity
               ELSE /\ p.res.allowed = (p.res.currentUsage < L)
                    /\ p.res.limit = Num(L)
                    /\ p.res.remaining =
                         Num(IF L > p.res.currentUsage THEN L - p.res.currentUsage
                             ELSE 0)
                    /\ (i <= Len(procs) /\ procs[i].res.planType = "none") =>
                         p.res.currentUsage =
                           IF <<p.user, p.key>> \in DOMAIN usage'
                           THEN usage'[<<p.user, p.key>>][p.feature] ELSE 0]_vars

C29_Witness ==
  /\ now = 2
  /\ subs["u1"].plan = "standard" /\ subs["u1"].status = "past_due"
  /\ PeriodEnded(subs["u1"])
  /\ \E i \in 1..Len(procs) :
       /\ procs[i].kind = "ocr" /\ procs[i].pc = "done" /\ procs[i].http = 200
       /\ procs[i].res.allowed /\ procs[i].res.limit = Infinity
       /\ procs[i].key \in KeysOfMonth(2)

(* ------------- metered use while paid, then back on free --------------- *)
NextPaidUse ==
  \/ StartIdle(CheckedKinds, MeterUsers, {"ocr"}, MaxPaidCalls)
  \/ \E i \in 1..MaxPaidCalls + 1 : CheckSub(i, {FALSE})
  \/ \E i \in 1..MaxPaidCalls + 1 : UsageSelect(i, {FALSE})
  \/ \E i \in 1..MaxPaidCalls + 1 : UsageInsert(i, {FALSE})
  \/ \E i \in 1..MaxPaidCalls + 1 : ExternalOp(i, {"ok"})
  \/ \E i \in 1..MaxPaidCalls + 1 : UsageUpdate(i, {FALSE})
  \/ Webhook(DeletedEvents, MaxPaidDeliveries, FALSE, FALSE)

SpecPaidUse == InitEndpoint /\ [][NextPaidUse]_vars

(* C30: a metered request that was let through on a paid plan reports      *)
(* currentUsage 0 and still raises the month's counter by 1; every         *)
(* successful increment is in the counter whatever the plan was; and a     *)
(* check on the free plan compares that counter, with the increments made  *)
(* while paid, against the free limit.                                     *)
C30_PaidUseIsCounted ==
  [][/\ usage' = okIncs'
     /\ \A i \in 1..Len(procs) :
          LET p == procs[i]
              q == procs'[i]
              k == <<q.user, q.key>>
          IN /\ (p.res.planType = "none" /\ q.res.planType \in PaidPlans) =>
                  (q.res.allowed /\ q.res.currentUsage = 0)
             /\ (IsEndpoint(p) /\ p.res.planType \in PaidPlans
                 /\ p.pc = "inc_upd" /\ q.pc = "done") =>
                  /\ q.http = 200
                  /\ usage'[k][q.feature] = usage[k][q.feature] + 1
             /\ (p.res.planType = "none" /\ q.res.planType = "free") =>
                  /\ q.res.currentUsage = usage'[k][q.feature]
                  /\ q.res.allowed = (usage'[k][q.feature] < FreeLimit(q.feature))]_vars

C30_Witness ==
  /\ Len(procs) = 2 /\ FreedRow(subs["u1"])
  /\ procs[1].kind = "ocr" /\ procs[1].pc = "done" /\ procs[1].http = 200
  /\ procs[1].res.planType \in PaidPlans /\ procs[1].res.currentUsage = 0
  /\ procs[2].kind = "check" /\ procs[2].pc = "done"
  /\ procs[2].res.planType = "free" /\ ~procs[2].res.allowed
  /\ procs[2].res.currentUsage = FreeLimit("ocr")
  /\ procs[2].key = procs[1].key
  /\ usage[<<"u1", procs[1].key>>]["ocr"] = FreeLimit("ocr")

==========================================================================
